---------------------------- MODULE Spec2Model ----------------------------
(***************************************************************************)
(* A model of MantaRay's SIMD kernel class (src/src/SIMD.h): the three     *)
(* in-place accumulator updates AddToAll, SubtractFromAll and              *)
(* SubtractAndAddToAll, and the forward pass ActivateFlattenAndForward,    *)
(* each in its three conditionally compiled forms (AVX-512, AVX2, scalar). *)
(*                                                                         *)
(* T is int16_t and OT is int32_t.  Arithmetic on T wraps modulo 2^16      *)
(* (the scalar path computes in int and converts back to T, the vector     *)
(* path uses the wrapping 16-bit lane instructions).  Arrays are functions *)
(* on 0 .. size-1, a vector register is a function on its lanes.           *)
(***************************************************************************)
EXTENDS Integers, Sequences, FiniteSets

VARIABLES
    \* the build and the tables every caller shares
    backend,     \* which #if branch the build compiled: "Scalar", "Avx2", "Avx512"
    InputSize,   \* template parameter InputSize
    OutputSize,  \* template parameter OutputSize
    delta,       \* const std::array<T, DeltaSize>& delta
    weight,      \* const std::array<T, InputSize * 2 * OutputSize>& weight
    bias,        \* const std::array<T, OutputSize>& bias
    output,      \* std::array<OT, OutputSize>& output
    activation,  \* the Activation strategy the forward pass is instantiated with
    \* one caller, each call taken as a whole
    mode,        \* what the caller is about to do: "update" or "evaluate"
    pc,          \* "ready" before the call, "done" after it
    call,        \* the call made: its name and its offsets
    inputA,      \* std::array<T, InputSize>& inputA
    inputB,      \* std::array<T, InputSize>& inputB
    startA,      \* inputA as it was before the call
    startB,      \* inputB as it was before the call
    \* callers whose calls are followed statement by statement
    callers,     \* the callers that take part
    req,         \* per caller: the call it makes, its name and its offsets
    accA,        \* per caller: the array it passes as inputA
    accB,        \* per caller: the array it passes as inputB
    begA,        \* per caller: accA as it was before the call
    begB,        \* per caller: accB as it was before the call
    pos,         \* per caller: where in the loops the call stands
    regs,        \* per caller: the local registers zmm0/ymm0, zmm1/ymm1, zmm2/ymm2
    fwd,         \* per caller: stride and the running sum of the forward pass
    access,      \* per caller: the indices read and written so far
    outWr,       \* how often each element of output was written
    fault,       \* per caller: the access outside a container, if one was made
    overlap,     \* whether a call began while another caller's call was under way
    frozen       \* delta, weight and bias as they were before the calls

tableVars == <<backend, InputSize, OutputSize, delta, weight, bias, activation>>

callVars == <<mode, pc, call, inputA, inputB, startA, startB>>

stepVars == <<callers, req, accA, accB, begA, begB, pos, regs, fwd, access,
              outWr, fault, overlap, frozen>>

vars == <<tableVars, output, callVars, stepVars>>

-----------------------------------------------------------------------------
(* Bounds of the model *)

\* InputSize ranges over 1 .. MaxInputSize
MaxInputSize == 4
\* slice offsets into the delta table range over 0 .. MaxOffset
MaxOffset == 1
\* the 16-bit lanes of a 256-bit register, counted in adjacent pairs
\* (16 lanes in the source, scaled down)
Avx2Pairs == 1
\* the 16-bit lanes of a 512-bit register, counted in adjacent pairs
\* (32 lanes in the source, scaled down)
Avx512Pairs == 2
\* OutputSize ranges over 1 .. MaxOutputSize
MaxOutputSize == 2

\* width of T (int16_t) in bits
TBits == 16
TMax == 2^(TBits - 1) - 1
TMin == -(2^(TBits - 1))

Backends == {"Scalar", "Avx2", "Avx512"}

-----------------------------------------------------------------------------
(* Element arithmetic *)

\* conversion of an int result back to T
WrapT(x) == ((x - TMin) % (2^TBits)) + TMin

\* elements handled by one loop iteration: i += 32, i += 16, i++
ChunkLength(b) ==
    CASE b = "Avx512" -> 2 * Avx512Pairs
      [] b = "Avx2"   -> 2 * Avx2Pairs
      [] OTHER        -> 1

\* the size of the delta table the model instantiates
DeltaSize == InputSize + MaxOffset

-----------------------------------------------------------------------------
(* The vector backend: Avx512<T>, Avx<T>, Avx2<T> *)

\* From(container, offset): one register of consecutive elements
From(container, off, W) == [k \in 0 .. W - 1 |-> container[off + k]]

\* Store(value, container, offset): the register back into the container
Store(v, container, off, W) ==
    [j \in DOMAIN container |->
        IF off <= j /\ j < off + W THEN v[j - off] ELSE container[j]]

\* Add(x, y) on T lanes
Add(x, y) == [k \in DOMAIN x |-> WrapT(x[k] + y[k])]

\* Subtract(x, y) on T lanes
Subtract(x, y) == [k \in DOMAIN x |-> WrapT(x[k] - y[k])]

-----------------------------------------------------------------------------
(* AddToAll *)

RECURSIVE VecAddLoop(_, _, _, _, _)
VecAddLoop(input, d, o, i, W) ==
    IF i < InputSize
    THEN VecAddLoop(Store(Add(From(input, i, W), From(d, o + i, W)), input, i, W),
                    d, o, i + W, W)
    ELSE input

\* = written for +=
RECURSIVE ScalarAssignLoop(_, _, _, _)
ScalarAssignLoop(input, d, o, i) ==
    IF i < InputSize
    THEN ScalarAssignLoop([input EXCEPT ![i] = d[o + i]], d, o, i + 1)
    ELSE input

RECURSIVE ScalarAddLoop(_, _, _, _)
ScalarAddLoop(input, d, o, i) ==
    IF i < InputSize
    THEN ScalarAddLoop([input EXCEPT ![i] = WrapT(input[i] + d[o + i])], d, o, i + 1)
    ELSE input

\* the loop over inputB run with the offset of inputA
AddToAllSameOffset(b, inA, inB, d, oA, oB) ==
    IF b = "Scalar"
    THEN [A |-> ScalarAddLoop(inA, d, oA, 0), B |-> ScalarAddLoop(inB, d, oA, 0)]
    ELSE [A |-> VecAddLoop(inA, d, oA, 0, ChunkLength(b)),
          B |-> VecAddLoop(inB, d, oA, 0, ChunkLength(b))]

AddToAll(b, inA, inB, d, oA, oB) ==
    IF b = "Scalar"
    THEN [A |-> ScalarAddLoop(inA, d, oA, 0), B |-> ScalarAddLoop(inB, d, oB, 0)]
    ELSE [A |-> VecAddLoop(inA, d, oA, 0, ChunkLength(b)),
          B |-> VecAddLoop(inB, d, oB, 0, ChunkLength(b))]

-----------------------------------------------------------------------------
(* SubtractFromAll *)

RECURSIVE VecSubtractLoop(_, _, _, _, _)
VecSubtractLoop(input, d, o, i, W) ==
    IF i < InputSize
    THEN VecSubtractLoop(
            Store(Subtract(From(input, i, W), From(d, o + i, W)), input, i, W),
            d, o, i + W, W)
    ELSE input

RECURSIVE ScalarSubtractLoop(_, _, _, _)
ScalarSubtractLoop(input, d, o, i) ==
    IF i < InputSize
    THEN ScalarSubtractLoop([input EXCEPT ![i] = WrapT(input[i] - d[o + i])],
                            d, o, i + 1)
    ELSE input

\* the delta table read from its start, whatever the offsets
SubtractFromAllNoOffset(b, inA, inB, d, oA, oB) ==
    IF b = "Scalar"
    THEN [A |-> ScalarSubtractLoop(inA, d, 0, 0),
          B |-> ScalarSubtractLoop(inB, d, 0, 0)]
    ELSE [A |-> VecSubtractLoop(inA, d, 0, 0, ChunkLength(b)),
          B |-> VecSubtractLoop(inB, d, 0, 0, ChunkLength(b))]

SubtractFromAll(b, inA, inB, d, oA, oB) ==
    IF b = "Scalar"
    THEN [A |-> ScalarSubtractLoop(inA, d, oA, 0),
          B |-> ScalarSubtractLoop(inB, d, oB, 0)]
    ELSE [A |-> VecSubtractLoop(inA, d, oA, 0, ChunkLength(b)),
          B |-> VecSubtractLoop(inB, d, oB, 0, ChunkLength(b))]

-----------------------------------------------------------------------------
(* SubtractAndAddToAll *)

RECURSIVE VecSubtractAndAddLoop(_, _, _, _, _, _)
VecSubtractAndAddLoop(input, d, oS, oA, i, W) ==
    IF i < InputSize
    THEN LET r0 == From(input, i, W)
             r1 == From(d, oS + i, W)
             r2 == From(d, oA + i, W)
         IN  VecSubtractAndAddLoop(Store(Add(Subtract(r0, r1), r2), input, i, W),
                                   d, oS, oA, i + W, W)
    ELSE input

\* inputB updated with the subtraction offset of inputA
RECURSIVE ScalarSubtractAndAddLoopSameOffset(_, _, _, _, _, _, _, _)
ScalarSubtractAndAddLoopSameOffset(inA, inB, d, oAS, oAA, oBS, oBA, i) ==
    IF i < InputSize
    THEN ScalarSubtractAndAddLoopSameOffset(
            [inA EXCEPT ![i] = WrapT(inA[i] - d[oAS + i] + d[oAA + i])],
            [inB EXCEPT ![i] = WrapT(inB[i] - d[oAS + i] + d[oBA + i])],
            d, oAS, oAA, oBS, oBA, i + 1)
    ELSE [A |-> inA, B |-> inB]

\* the scalar form is one loop over both arrays; each right-hand side is
\* computed in int and converted to T once, on assignment
RECURSIVE ScalarSubtractAndAddLoop(_, _, _, _, _, _, _, _)
ScalarSubtractAndAddLoop(inA, inB, d, oAS, oAA, oBS, oBA, i) ==
    IF i < InputSize
    THEN ScalarSubtractAndAddLoop(
            [inA EXCEPT ![i] = WrapT(inA[i] - d[oAS + i] + d[oAA + i])],
            [inB EXCEPT ![i] = WrapT(inB[i] - d[oBS + i] + d[oBA + i])],
            d, oAS, oAA, oBS, oBA, i + 1)
    ELSE [A |-> inA, B |-> inB]

SubtractAndAddToAll(b, inA, inB, d, oAS, oAA, oBS, oBA) ==
    IF b = "Scalar"
    THEN ScalarSubtractAndAddLoop(inA, inB, d, oAS, oAA, oBS, oBA, 0)
    ELSE [A |-> VecSubtractAndAddLoop(inA, d, oAS, oAA, 0, ChunkLength(b)),
          B |-> VecSubtractAndAddLoop(inB, d, oBS, oBA, 0, ChunkLength(b))]

-----------------------------------------------------------------------------
(* ActivateFlattenAndForward *)

Activations == {"Identity", "ReLU"}

\* Activation::Activate on one element
Activate(act, x) == IF act = "ReLU" /\ x < 0 THEN 0 ELSE x

\* Activation::Activate on a register
ActivateVec(act, x) == [k \in DOMAIN x |-> Activate(act, x[k])]

\* a product cut back to the width of T
MultiplyInT(x, y) == WrapT(x * y)

\* a product of two T operands, computed in int
Multiply(x, y) == x * y

\* Zero() on OT lanes: half as many as the register has T lanes
Zero(W) == [k \in 0 .. (W \div 2) - 1 |-> 0]

\* MultiplyAndAddAdjacent(x, y): T lanes multiplied, adjacent products added
\* into one OT lane
MultiplyAndAddAdjacent(x, y, W) ==
    [k \in 0 .. (W \div 2) - 1 |->
        Multiply(x[2 * k], y[2 * k]) + Multiply(x[2 * k + 1], y[2 * k + 1])]

\* Add(x, y) on OT lanes
AddOT(x, y) == [k \in DOMAIN x |-> x[k] + y[k]]

\* Sum(value): all the OT lanes of a register added up
RECURSIVE SumLanes(_, _)
SumLanes(v, k) == IF k \in DOMAIN v THEN v[k] + SumLanes(v, k + 1) ELSE 0

Sum(v) == SumLanes(v, 0)

\* inputB multiplied with the weights of inputA
VecDotBodySameWeights(act, inA, inB, w, stride, acc, j, W) ==
    LET a  == MultiplyAndAddAdjacent(ActivateVec(act, From(inA, j, W)),
                                     From(w, stride + j, W), W)
        r0 == AddOT(acc, a)
        b  == MultiplyAndAddAdjacent(ActivateVec(act, From(inB, j, W)),
                                     From(w, stride + j, W), W)
    IN  AddOT(r0, b)

\* one round of the vector loop over j: inputA against the weights at stride,
\* inputB against the weights InputSize further on, added into zmm0 / ymm0
VecDotBody(act, inA, inB, w, stride, acc, j, W) ==
    LET a  == MultiplyAndAddAdjacent(ActivateVec(act, From(inA, j, W)),
                                     From(w, stride + j, W), W)
        r0 == AddOT(acc, a)
        b  == MultiplyAndAddAdjacent(ActivateVec(act, From(inB, j, W)),
                                     From(w, InputSize + stride + j, W), W)
    IN  AddOT(r0, b)

RECURSIVE VecDotLoop(_, _, _, _, _, _, _, _)
VecDotLoop(act, inA, inB, w, stride, acc, j, W) ==
    IF j < InputSize
    THEN VecDotLoop(act, inA, inB, w, stride,
                    VecDotBody(act, inA, inB, w, stride, acc, j, W), j + W, W)
    ELSE acc

\* one round of the scalar loop over j, added into the variable sum
ScalarDotBody(act, inA, inB, w, stride, sum, j) ==
    LET s1 == sum + Multiply(Activate(act, inA[j]), w[stride + j])
    IN  s1 + Multiply(Activate(act, inB[j]), w[InputSize + stride + j])

RECURSIVE ScalarDotLoop(_, _, _, _, _, _, _)
ScalarDotLoop(act, inA, inB, w, stride, sum, j) ==
    IF j < InputSize
    THEN ScalarDotLoop(act, inA, inB, w, stride,
                       ScalarDotBody(act, inA, inB, w, stride, sum, j), j + 1)
    ELSE sum

\* the value of one output neuron before the bias is added
Neuron(b, act, inA, inB, w, stride) ==
    IF b = "Scalar"
    THEN ScalarDotLoop(act, inA, inB, w, stride, 0, 0)
    ELSE Sum(VecDotLoop(act, inA, inB, w, stride, Zero(ChunkLength(b)), 0,
                        ChunkLength(b)))

\* the index with the neuron number left out
OutIndexFirst(o, i) == o

\* the index o + i into bias and output
OutIndex(o, i) == o + i

\* the loop over i; stride grows by InputSize * 2 each round
RECURSIVE ForwardLoop(_, _, _, _, _, _, _, _, _, _)
ForwardLoop(b, act, inA, inB, w, bs, out, o, stride, i) ==
    IF i < OutputSize
    THEN ForwardLoop(b, act, inA, inB, w, bs,
                     [out EXCEPT ![OutIndex(o, i)] =
                         Neuron(b, act, inA, inB, w, stride) + bs[OutIndex(o, i)]],
                     o, stride + InputSize * 2, i + 1)
    ELSE out

ActivateFlattenAndForward(b, act, inA, inB, w, bs, out, o) ==
    ForwardLoop(b, act, inA, inB, w, bs, out, o, 0, 0)

\* every index o + i the call uses exists in bias and in output
ForwardInBounds(bs, out, o) ==
    \A i \in 0 .. OutputSize - 1 :
        OutIndex(o, i) \in DOMAIN bs /\ OutIndex(o, i) \in DOMAIN out

-----------------------------------------------------------------------------
(* The inputs the model draws *)

\* InputSize is a multiple of the backend's chunk length
InContract(b, n) == n % ChunkLength(b) = 0

\* accumulator values: the extremes of T and zero
AccVals == {TMin, 0, TMax}

\* an accumulator holding x at its even and y at its odd indices
Acc(n, x, y) == [i \in 0 .. n - 1 |-> IF i % 2 = 0 THEN x ELSE y]

AccSamples(n) == {Acc(n, p[1], p[2]) : p \in AccVals \X AccVals}

\* a table whose element k is base + k * slope
Ramp(size, base, slope) == [k \in 0 .. size - 1 |-> WrapT(base + k * slope)]

\* a table that is zero except for val at index spot
Spike(size, spot, val) == [k \in 0 .. size - 1 |-> IF k = spot THEN val ELSE 0]

DeltaSamples(size) ==
    {Ramp(size, p[1], p[2]) : p \in {-1, 0, 1, TMax} \X {0, 1}}
        \cup {Spike(size, spot, 1) : spot \in {0, size - 1}}

WeightSamples(size) == {Ramp(size, p[1], p[2]) : p \in {-3, 1, 200} \X {0, 1}}

BiasSamples(size) == {Ramp(size, base, 1) : base \in {-7, 5}}

Zeros(size) == [k \in 0 .. size - 1 |-> 0]

NoCall == [op |-> "none"]

Callers == {1, 2}

NoFault == [container |-> "none", index |-> 0]

IdlePos == [at |-> "idle", arr |-> "A", i |-> 0, j |-> 0]

NoRegs == [r0 |-> <<>>, r1 |-> <<>>, r2 |-> <<>>]

NoAccess(n) ==
    [rdA |-> Zeros(n), wrA |-> Zeros(n), rdB |-> Zeros(n), wrB |-> Zeros(n),
     accIdx |-> {}, deltaIdx |-> {}]

\* nobody is followed statement by statement
StepsIdle ==
    /\ callers = {}
    /\ req = [p \in Callers |-> NoCall]
    /\ accA = [p \in Callers |-> <<>>]
    /\ accB = [p \in Callers |-> <<>>]
    /\ begA = accA
    /\ begB = accB
    /\ pos = [p \in Callers |-> IdlePos]
    /\ regs = [p \in Callers |-> NoRegs]
    /\ fwd = [p \in Callers |-> [stride |-> 0, sum |-> 0]]
    /\ access = [p \in Callers |-> NoAccess(InputSize)]
    /\ outWr = Zeros(OutputSize)
    /\ fault = [p \in Callers |-> NoFault]
    /\ overlap = FALSE
    /\ frozen = [delta |-> delta, weight |-> weight, bias |-> bias]

\* the caller is about to update the accumulators
InitUpdate ==
    /\ mode = "update"
    /\ backend \in Backends
    /\ InputSize \in {n \in 1 .. MaxInputSize : InContract(backend, n)}
    /\ OutputSize = 1
    /\ inputA \in AccSamples(InputSize)
    /\ inputB \in AccSamples(InputSize)
    /\ delta \in DeltaSamples(InputSize + MaxOffset)
    /\ weight = Zeros(InputSize * 2 * OutputSize)
    /\ bias = Zeros(OutputSize)
    /\ activation = "Identity"

\* the caller is about to run the forward pass
InitEvaluate ==
    /\ mode = "evaluate"
    /\ backend \in Backends
    /\ InputSize \in {n \in 1 .. MaxInputSize : InContract(backend, n)}
    /\ OutputSize \in 1 .. MaxOutputSize
    /\ inputA \in AccSamples(InputSize)
    /\ inputB \in AccSamples(InputSize)
    /\ delta = Zeros(InputSize + MaxOffset)
    /\ weight \in WeightSamples(InputSize * 2 * OutputSize)
    /\ bias \in BiasSamples(OutputSize)
    /\ activation \in Activations

\* the forward pass of the documented example
InitExample ==
    /\ mode = "evaluate"
    /\ InputSize = 2
    /\ backend \in {b \in Backends : InContract(b, InputSize)}
    /\ OutputSize = 1
    /\ inputA = Acc(2, 1, 2)
    /\ inputB = Acc(2, 3, 4)
    /\ delta = Zeros(InputSize + MaxOffset)
    /\ weight = Ramp(4, 1, 0)
    /\ bias = Ramp(1, 5, 0)
    /\ activation = "Identity"

Init ==
    /\ InitUpdate \/ InitEvaluate \/ InitExample
    /\ pc = "ready"
    /\ call = NoCall
    /\ startA = inputA
    /\ startB = inputB
    /\ output = Zeros(OutputSize)
    /\ StepsIdle

-----------------------------------------------------------------------------
(* One call of each kernel *)

Offsets == 0 .. MaxOffset

CallAddToAll ==
    /\ pc = "ready" /\ mode = "update"
    /\ \E oA \in Offsets, oB \in Offsets :
        LET r == AddToAll(backend, inputA, inputB, delta, oA, oB)
        IN  /\ inputA' = r.A
            /\ inputB' = r.B
            /\ call' = [op |-> "AddToAll", oA |-> oA, oB |-> oB]
    /\ pc' = "done"
    /\ UNCHANGED <<tableVars, output, mode, startA, startB, stepVars>>

CallSubtractFromAll ==
    /\ pc = "ready" /\ mode = "update"
    /\ \E oA \in Offsets, oB \in Offsets :
        LET r == SubtractFromAll(backend, inputA, inputB, delta, oA, oB)
        IN  /\ inputA' = r.A
            /\ inputB' = r.B
            /\ call' = [op |-> "SubtractFromAll", oA |-> oA, oB |-> oB]
    /\ pc' = "done"
    /\ UNCHANGED <<tableVars, output, mode, startA, startB, stepVars>>

CallSubtractAndAddToAll ==
    /\ pc = "ready" /\ mode = "update"
    /\ \E oAS \in Offsets, oAA \in Offsets, oBS \in Offsets, oBA \in Offsets :
        LET r == SubtractAndAddToAll(backend, inputA, inputB, delta,
                                     oAS, oAA, oBS, oBA)
        IN  /\ inputA' = r.A
            /\ inputB' = r.B
            /\ call' = [op |-> "SubtractAndAddToAll", oAS |-> oAS, oAA |-> oAA,
                        oBS |-> oBS, oBA |-> oBA]
    /\ pc' = "done"
    /\ UNCHANGED <<tableVars, output, mode, startA, startB, stepVars>>

\* bias and output hold OutputSize elements: an offset o that takes o + i past
\* them is an access outside the arrays, after which nothing is defined
CallActivateFlattenAndForward ==
    /\ pc = "ready" /\ mode = "evaluate"
    /\ \E o \in Offsets :
        /\ call' = [op |-> "ActivateFlattenAndForward", o |-> o]
        /\ IF ForwardInBounds(bias, output, o)
           THEN /\ output' = ActivateFlattenAndForward(backend, activation, inputA,
                                 inputB, weight, bias, output, o)
                /\ pc' = "done"
           ELSE /\ output' = output
                /\ pc' = "undefined"
    /\ UNCHANGED <<tableVars, mode, inputA, inputB, startA, startB, stepVars>>

Next ==
    \/ CallAddToAll
    \/ CallSubtractFromAll
    \/ CallSubtractAndAddToAll
    \/ CallActivateFlattenAndForward

Spec == Init /\ [][Next]_vars

-----------------------------------------------------------------------------
(* Properties of the calls *)

Accumulators == [A |-> inputA, B |-> inputB]

Start == [A |-> startA, B |-> startB]

Done(op) == pc = "done" /\ call.op = op

OutOfT(x) == x < TMin \/ x > TMax

\* sum over j in [from, InputSize) of Activate(in[j]) * w[base + j]
RECURSIVE DotProduct(_, _, _, _, _)
DotProduct(act, in, w, base, from) ==
    IF from < InputSize
    THEN Activate(act, in[from]) * w[base + from]
            + DotProduct(act, in, w, base, from + 1)
    ELSE 0

IsExample ==
    /\ InputSize = 2 /\ OutputSize = 1 /\ activation = "Identity"
    /\ inputA = Acc(2, 1, 2) /\ inputB = Acc(2, 3, 4)
    /\ weight = Ramp(4, 1, 0) /\ bias = Ramp(1, 5, 0)

\* C1: after ActivateFlattenAndForward, output[o+i] is bias[o+i] plus the dot
\* product of the activated inputA with the weights at i*2*InputSize and of
\* the activated inputB with the weights InputSize further on, no product
\* cut to the width of T; the documented example gives output[0] = 15
C1_ForwardValue ==
    Done("ActivateFlattenAndForward") =>
        /\ \A i \in 0 .. OutputSize - 1 :
            output[call.o + i] =
                bias[call.o + i]
                    + DotProduct(activation, inputA, weight, i * 2 * InputSize, 0)
                    + DotProduct(activation, inputB, weight,
                                 i * 2 * InputSize + InputSize, 0)
        /\ IsExample => output[0] = 15

\* a forward pass of two neurons in which a product exceeds the range of T
C1_Witness ==
    /\ Done("ActivateFlattenAndForward")
    /\ OutputSize = 2 /\ InputSize >= 2
    /\ \E j \in 0 .. InputSize - 1 :
        OutOfT(Activate(activation, inputA[j]) * weight[2 * InputSize + j])
    /\ output[1] # output[0]

\* C2: a vector backend leaves the accumulators and the output exactly as the
\* scalar loops leave them from the same start
C2_VectorEqualsScalar ==
    (pc = "done" /\ backend # "Scalar") =>
        CASE call.op = "AddToAll" ->
                Accumulators = AddToAll("Scalar", startA, startB, delta,
                                        call.oA, call.oB)
          [] call.op = "SubtractFromAll" ->
                Accumulators = SubtractFromAll("Scalar", startA, startB, delta,
                                               call.oA, call.oB)
          [] call.op = "SubtractAndAddToAll" ->
                Accumulators = SubtractAndAddToAll("Scalar", startA, startB, delta,
                                   call.oAS, call.oAA, call.oBS, call.oBA)
          [] call.op = "ActivateFlattenAndForward" ->
                output = ActivateFlattenAndForward("Scalar", activation, inputA,
                             inputB, weight, bias, Zeros(OutputSize), call.o)

\* a vector forward pass over two chunks for two neurons
C2_Witness ==
    /\ Done("ActivateFlattenAndForward")
    /\ backend = "Avx2" /\ InputSize = 2 * ChunkLength("Avx2")
    /\ OutputSize = 2
    /\ output[0] # bias[0] /\ output[1] # output[0]

\* C3: SubtractAndAddToAll leaves the accumulators as SubtractFromAll followed
\* by AddToAll leaves them from the same start
C3_FusionEquivalence ==
    Done("SubtractAndAddToAll") =>
        LET s == SubtractFromAll(backend, startA, startB, delta, call.oAS, call.oBS)
        IN  Accumulators = AddToAll(backend, s.A, s.B, delta, call.oAA, call.oBA)

\* a fused call whose intermediate subtraction leaves the range of T
C3_Witness ==
    /\ Done("SubtractAndAddToAll")
    /\ call.oAS # call.oAA
    /\ \E i \in 0 .. InputSize - 1 : OutOfT(startA[i] - delta[call.oAS + i])
    /\ inputA # startA

\* C4: SubtractFromAll with the same offsets undoes AddToAll
C4_AdditiveInverse ==
    Done("AddToAll") =>
        SubtractFromAll(backend, inputA, inputB, delta, call.oA, call.oB) = Start

\* an addition that overflowed T and wrapped
C4_Witness ==
    /\ Done("AddToAll")
    /\ call.oA # call.oB
    /\ \E i \in 0 .. InputSize - 1 : OutOfT(startA[i] + delta[call.oA + i])
    /\ inputA # startA

\* the elementwise sum of the delta slices at o1 and o2, as a delta table
SliceSum(o1, o2) ==
    [k \in 0 .. InputSize - 1 |-> WrapT(delta[o1 + k] + delta[o2 + k])]

ZeroStart == startA = Zeros(InputSize) /\ startB = Zeros(InputSize)

\* C8: from zero accumulators, AddToAll at o1 and then at o2 gives what one
\* AddToAll of the summed slices gives, and what the two calls give in the
\* other order
C8_OffsetComposability ==
    (Done("AddToAll") /\ ZeroStart /\ call.oA = call.oB) =>
        \A o2 \in Offsets :
            LET o1    == call.oA
                both  == AddToAll(backend, inputA, inputB, delta, o2, o2)
                once  == AddToAll(backend, startA, startB, SliceSum(o1, o2), 0, 0)
                first == AddToAll(backend, startA, startB, delta, o2, o2)
                other == AddToAll(backend, first.A, first.B, delta, o1, o1)
            IN  both = once /\ both = other

\* a first AddToAll from zero that changed the accumulators, with another
\* slice to add
C8_Witness ==
    /\ Done("AddToAll") /\ ZeroStart /\ call.oA = call.oB
    /\ inputA # startA
    /\ \E o2 \in Offsets : SliceSum(call.oA, o2) # SliceSum(call.oA, call.oA)

ZeroSlice(o) == \A i \in 0 .. InputSize - 1 : delta[o + i] = 0

\* C9: AddToAll and SubtractFromAll with all-zero delta slices leave both
\* accumulators unchanged
C9_ZeroDelta ==
    ((Done("AddToAll") \/ Done("SubtractFromAll"))
        /\ ZeroSlice(call.oA) /\ ZeroSlice(call.oB)) =>
            Accumulators = Start

\* a call on zero slices of a table that is not zero, on non-zero accumulators
C9_Witness ==
    /\ Done("SubtractFromAll")
    /\ ZeroSlice(call.oA) /\ ZeroSlice(call.oB)
    /\ delta # Zeros(DeltaSize)
    /\ startA # Zeros(InputSize)

-----------------------------------------------------------------------------
(* The calls followed statement by statement.  A loop round of an update is *)
(* two steps: the loads into the registers, then the store of the result.   *)
(* An access outside a container is undefined behaviour: the caller goes to *)
(* "undefined" and nothing more is said about what it does.                 *)

\* InputSize of the callers that run side by side ranges over
\* 1 .. MaxConcInputSize
MaxConcInputSize == 2

UpdateOps == {"AddToAll", "SubtractFromAll", "SubtractAndAddToAll"}

IsUpdate(r) == r.op \in UpdateOps

UpdateRequests(offs) ==
    {[op |-> "AddToAll", oA |-> p[1], oB |-> p[2]] : p \in offs \X offs}
        \cup {[op |-> "SubtractFromAll", oA |-> p[1], oB |-> p[2]] :
                p \in offs \X offs}
        \cup {[op |-> "SubtractAndAddToAll", oAS |-> p[1], oAA |-> p[2],
               oBS |-> p[3], oBA |-> p[4]] : p \in offs \X offs \X offs \X offs}

ForwardRequests(offs) == {[op |-> "ActivateFlattenAndForward", o |-> o] : o \in offs}

\* the offset of the slice subtracted (or, in AddToAll, added) for array a
FirstOffset(r, a) ==
    IF r.op = "SubtractAndAddToAll"
    THEN (IF a = "A" THEN r.oAS ELSE r.oBS)
    ELSE (IF a = "A" THEN r.oA ELSE r.oB)

\* the offset of the slice SubtractAndAddToAll adds for array a
SecondOffset(r, a) ==
    IF r.op = "SubtractAndAddToAll"
    THEN (IF a = "A" THEN r.oAA ELSE r.oBA)
    ELSE FirstOffset(r, a)

Lanes(off, W) == off .. off + W - 1

Inside(container, off, W) == Lanes(off, W) \subseteq DOMAIN container

FirstOutside(container, off, W) ==
    CHOOSE k \in Lanes(off, W) :
        /\ k \notin DOMAIN container
        /\ \A m \in Lanes(off, W) : m < k => m \in DOMAIN container

\* registers declared static: one set for all callers
RegFileShared(p) == 1

\* the registers are locals of the call: each caller has its own
RegFile(p) == p

\* a vector loop that steps by one element
NextIndexByOne(i) == i + 1

\* the loop variable after one round
NextIndex(i) == i + ChunkLength(backend)

\* the value stored back: zmm0 after Add / Subtract, or the scalar right-hand
\* side converted to T
Combine(op, rg) ==
    CASE op = "AddToAll"        -> Add(rg.r0, rg.r1)
      [] op = "SubtractFromAll" -> Subtract(rg.r0, rg.r1)
      [] OTHER ->
            IF backend = "Scalar"
            THEN [k \in DOMAIN rg.r0 |-> WrapT(rg.r0[k] - rg.r1[k] + rg.r2[k])]
            ELSE Add(Subtract(rg.r0, rg.r1), rg.r2)

\* where the call stands after the store for array a at index i: the vector
\* forms and the scalar AddToAll / SubtractFromAll run a loop over inputA and
\* then one over inputB, the scalar SubtractAndAddToAll handles both in one
Advance(op, a, i) ==
    IF backend = "Scalar" /\ op = "SubtractAndAddToAll"
    THEN IF a = "A" THEN [at |-> "load", arr |-> "B", i |-> i, j |-> 0]
         ELSE IF NextIndex(i) < InputSize
              THEN [at |-> "load", arr |-> "A", i |-> NextIndex(i), j |-> 0]
              ELSE [at |-> "done", arr |-> "B", i |-> NextIndex(i), j |-> 0]
    ELSE IF NextIndex(i) < InputSize
         THEN [at |-> "load", arr |-> a, i |-> NextIndex(i), j |-> 0]
         ELSE IF a = "A" THEN [at |-> "load", arr |-> "B", i |-> 0, j |-> 0]
              ELSE [at |-> "done", arr |-> "B", i |-> NextIndex(i), j |-> 0]

Bump(count, idxs) ==
    [k \in DOMAIN count |-> IF k \in idxs THEN count[k] + 1 ELSE count[k]]

ZeroSum == IF backend = "Scalar" THEN 0 ELSE Zero(ChunkLength(backend))

Undefined(p, container, index) ==
    /\ pos' = [pos EXCEPT ![p].at = "undefined"]
    /\ fault' = [fault EXCEPT ![p] = [container |-> container, index |-> index]]

\* the call begins
Invoke(p) ==
    /\ p \in callers
    /\ pos[p].at = "idle"
    /\ pos' = [pos EXCEPT ![p] =
                  [at |-> IF IsUpdate(req[p]) THEN "load" ELSE "dot",
                   arr |-> "A", i |-> 0, j |-> 0]]
    /\ fwd' = [fwd EXCEPT ![p] = [stride |-> 0, sum |-> ZeroSum]]
    /\ overlap' = (overlap \/ \E q \in callers \ {p} : pos[q].at \in {"load", "store"})
    /\ UNCHANGED <<tableVars, output, callVars, callers, req, accA, accB, begA,
                   begB, regs, access, outWr, fault, frozen>>

\* zmm0 = From(input, i); zmm1 = From(delta, o + i); zmm2 = From(delta, oA + i)
Load(p) ==
    /\ p \in callers
    /\ pos[p].at = "load"
    /\ LET r     == req[p]
           a     == pos[p].arr
           i     == pos[p].i
           W     == ChunkLength(backend)
           input == IF a = "A" THEN accA[p] ELSE accB[p]
           o1    == FirstOffset(r, a)
           o2    == SecondOffset(r, a)
       IN  /\ access' = [access EXCEPT
                  ![p].accIdx = @ \cup Lanes(i, W),
                  ![p].deltaIdx = @ \cup Lanes(o1 + i, W) \cup Lanes(o2 + i, W),
                  ![p].rdA = IF a = "A" THEN Bump(@, Lanes(i, W)) ELSE @,
                  ![p].rdB = IF a = "B" THEN Bump(@, Lanes(i, W)) ELSE @]
           /\ IF ~Inside(input, i, W)
              THEN /\ Undefined(p, "input" \o a, FirstOutside(input, i, W))
                   /\ regs' = regs
              ELSE IF ~Inside(delta, o1 + i, W)
              THEN /\ Undefined(p, "delta", FirstOutside(delta, o1 + i, W))
                   /\ regs' = regs
              ELSE IF ~Inside(delta, o2 + i, W)
              THEN /\ Undefined(p, "delta", FirstOutside(delta, o2 + i, W))
                   /\ regs' = regs
              ELSE /\ regs' = [regs EXCEPT ![RegFile(p)] =
                                  [r0 |-> From(input, i, W),
                                   r1 |-> From(delta, o1 + i, W),
                                   r2 |-> From(delta, o2 + i, W)]]
                   /\ pos' = [pos EXCEPT ![p].at = "store"]
                   /\ fault' = fault
    /\ UNCHANGED <<tableVars, output, callVars, callers, req, accA, accB, begA,
                   begB, fwd, outWr, overlap, frozen>>

\* zmm0 = Add / Subtract(...); Store(zmm0, input, i); i += 32 / 16 / 1
StoreBack(p) ==
    /\ p \in callers
    /\ pos[p].at = "store"
    /\ LET r     == req[p]
           a     == pos[p].arr
           i     == pos[p].i
           W     == ChunkLength(backend)
           input == IF a = "A" THEN accA[p] ELSE accB[p]
           new   == Store(Combine(r.op, regs[RegFile(p)]), input, i, W)
       IN  /\ accA' = IF a = "A" THEN [accA EXCEPT ![p] = new] ELSE accA
           /\ accB' = IF a = "B" THEN [accB EXCEPT ![p] = new] ELSE accB
           /\ access' = [access EXCEPT
                  ![p].wrA = IF a = "A" THEN Bump(@, Lanes(i, W)) ELSE @,
                  ![p].wrB = IF a = "B" THEN Bump(@, Lanes(i, W)) ELSE @]
           /\ pos' = [pos EXCEPT ![p] = Advance(r.op, a, i)]
    /\ UNCHANGED <<tableVars, output, callVars, callers, req, begA, begB, regs,
                   fwd, outWr, fault, overlap, frozen>>

\* one round of the loop over j of the forward pass
Dot(p) ==
    /\ p \in callers
    /\ pos[p].at = "dot"
    /\ LET j      == pos[p].j
           W      == ChunkLength(backend)
           stride == fwd[p].stride
       IN  IF ~Inside(accA[p], j, W)
           THEN Undefined(p, "inputA", FirstOutside(accA[p], j, W)) /\ fwd' = fwd
           ELSE IF ~Inside(weight, stride + j, W)
           THEN /\ Undefined(p, "weight", FirstOutside(weight, stride + j, W))
                /\ fwd' = fwd
           ELSE IF ~Inside(weight, InputSize + stride + j, W)
           THEN /\ Undefined(p, "weight",
                             FirstOutside(weight, InputSize + stride + j, W))
                /\ fwd' = fwd
           ELSE /\ fwd' = [fwd EXCEPT ![p].sum =
                              IF backend = "Scalar"
                              THEN ScalarDotBody(activation, accA[p], accB[p],
                                                 weight, stride, @, j)
                              ELSE VecDotBody(activation, accA[p], accB[p],
                                              weight, stride, @, j, W)]
                /\ pos' = [pos EXCEPT ![p].j = NextIndex(j),
                                      ![p].at = IF NextIndex(j) < InputSize
                                                THEN "dot" ELSE "out"]
                /\ fault' = fault
    /\ UNCHANGED <<tableVars, output, callVars, callers, req, accA, accB, begA,
                   begB, regs, access, outWr, overlap, frozen>>

\* stride += InputSize * 2; output[o + i] = sum + bias[o + i]; i++
Out(p) ==
    /\ p \in callers
    /\ pos[p].at = "out"
    /\ LET i     == pos[p].i
           idx   == OutIndex(req[p].o, i)
           total == IF backend = "Scalar" THEN fwd[p].sum ELSE Sum(fwd[p].sum)
       IN  IF idx \notin DOMAIN bias
           THEN Undefined(p, "bias", idx) /\ UNCHANGED <<output, outWr, fwd>>
           ELSE IF idx \notin DOMAIN output
           THEN Undefined(p, "output", idx) /\ UNCHANGED <<output, outWr, fwd>>
           ELSE /\ output' = [output EXCEPT ![idx] = total + bias[idx]]
                /\ outWr' = Bump(outWr, {idx})
                /\ fwd' = [fwd EXCEPT ![p] =
                              [stride |-> @.stride + InputSize * 2, sum |-> ZeroSum]]
                /\ pos' = [pos EXCEPT ![p] =
                              IF i + 1 < OutputSize
                              THEN [at |-> "dot", arr |-> "A", i |-> i + 1, j |-> 0]
                              ELSE [at |-> "done", arr |-> "A", i |-> i + 1,
                                    j |-> 0]]
                /\ fault' = fault
    /\ UNCHANGED <<tableVars, callVars, callers, req, accA, accB, begA, begB,
                   regs, access, overlap, frozen>>

\* no caller is taken as a whole
CallIdle ==
    /\ mode = "steps"
    /\ pc = "ready"
    /\ call = NoCall
    /\ inputA = <<>>
    /\ inputB = <<>>
    /\ startA = <<>>
    /\ startB = <<>>

StepsStart ==
    /\ begA = accA
    /\ begB = accB
    /\ pos = [p \in Callers |-> IdlePos]
    /\ regs = [p \in Callers |-> NoRegs]
    /\ fwd = [p \in Callers |-> [stride |-> 0, sum |-> 0]]
    /\ access = [p \in Callers |-> NoAccess(InputSize)]
    /\ output = Zeros(OutputSize)
    /\ outWr = Zeros(OutputSize)
    /\ fault = [p \in Callers |-> NoFault]
    /\ overlap = FALSE
    /\ frozen = [delta |-> delta, weight |-> weight, bias |-> bias]

\* one caller, any InputSize and any offset, also those that break the
\* preconditions
InitSteps ==
    /\ CallIdle
    /\ callers = {1}
    /\ backend \in Backends
    /\ InputSize \in 1 .. MaxInputSize
    /\ \/ /\ OutputSize = 1
          /\ \E r \in UpdateRequests(0 .. MaxOffset + 1) :
                req = [p \in Callers |-> IF p = 1 THEN r ELSE NoCall]
          /\ delta \in {Ramp(DeltaSize, 1, 1), Ramp(DeltaSize, TMax, 0)}
          /\ weight = Zeros(InputSize * 2 * OutputSize)
          /\ bias = Zeros(OutputSize)
          /\ activation = "Identity"
       \/ /\ OutputSize \in 1 .. MaxOutputSize
          /\ \E r \in ForwardRequests(Offsets) :
                req = [p \in Callers |-> IF p = 1 THEN r ELSE NoCall]
          /\ delta = Zeros(DeltaSize)
          /\ weight \in {Ramp(InputSize * 2 * OutputSize, 1, 1),
                         Ramp(InputSize * 2 * OutputSize, 200, 0)}
          /\ bias \in BiasSamples(OutputSize)
          /\ activation \in Activations
    /\ \E a \in {Acc(InputSize, TMax, 0), Acc(InputSize, TMin, 1)} :
            accA = [p \in Callers |-> IF p = 1 THEN a ELSE <<>>]
    /\ \E b \in {Acc(InputSize, 0, TMin), Acc(InputSize, 2, TMax)} :
            accB = [p \in Callers |-> IF p = 1 THEN b ELSE <<>>]
    /\ StepsStart

NextSteps ==
    \E p \in Callers : Invoke(p) \/ Load(p) \/ StoreBack(p) \/ Dot(p) \/ Out(p)

SpecSteps == InitSteps /\ [][NextSteps]_vars

\* two callers with an accumulator pair each, sharing the delta table
InitConc ==
    /\ CallIdle
    /\ callers = Callers
    /\ backend \in Backends
    /\ InputSize \in {n \in 1 .. MaxConcInputSize : InContract(backend, n)}
    /\ OutputSize = 1
    /\ \E r1 \in UpdateRequests({0, MaxOffset}), r2 \in UpdateRequests({0, MaxOffset}) :
            req = [p \in Callers |-> IF p = 1 THEN r1 ELSE r2]
    /\ delta \in {Ramp(DeltaSize, 1, 1), Ramp(DeltaSize, TMax, 0)}
    /\ weight = Zeros(InputSize * 2 * OutputSize)
    /\ bias = Zeros(OutputSize)
    /\ activation = "Identity"
    /\ accA = [p \in Callers |->
                  IF p = 1 THEN Acc(InputSize, TMax, 0) ELSE Acc(InputSize, 1, TMin)]
    /\ accB = [p \in Callers |->
                  IF p = 1 THEN Acc(InputSize, 0, TMin) ELSE Acc(InputSize, TMax, 2)]
    /\ StepsStart

NextConc == \E p \in Callers : Invoke(p) \/ Load(p) \/ StoreBack(p)

SpecConc == InitConc /\ [][NextConc]_vars

-----------------------------------------------------------------------------
(* Properties of the calls followed statement by statement *)

\* what the call r makes of the accumulators a and b when it runs alone
RunCall(r, a, b) ==
    CASE r.op = "AddToAll" -> AddToAll(backend, a, b, delta, r.oA, r.oB)
      [] r.op = "SubtractFromAll" ->
            SubtractFromAll(backend, a, b, delta, r.oA, r.oB)
      [] r.op = "SubtractAndAddToAll" ->
            SubtractAndAddToAll(backend, a, b, delta, r.oAS, r.oAA, r.oBS, r.oBA)

\* C5: of two callers on accumulator pairs of their own and one delta table,
\* each ends, however their loads and stores interleave, with the
\* accumulators its call gives when it runs alone
C5_InterleavingsAgree ==
    \A p \in callers :
        /\ pos[p].at # "undefined"
        /\ pos[p].at = "done" =>
              [A |-> accA[p], B |-> accB[p]] = RunCall(req[p], begA[p], begB[p])

\* both calls are complete, one began while the other was under way, and both
\* changed their accumulators
C5_Witness ==
    /\ callers = Callers
    /\ \A p \in callers : pos[p].at = "done" /\ accA[p] # begA[p]
    /\ overlap
    /\ req[1].op = "SubtractAndAddToAll" /\ req[2].op = "AddToAll"

OutRange(r) == r.o .. r.o + OutputSize - 1

\* C6: a forward pass writes output only at o .. o + OutputSize - 1, each of
\* them once, and leaves inputA, inputB, weight and bias as they were; the
\* updates leave the delta table as it was
C6_Frame ==
    \A p \in callers :
        pos[p].at # "undefined" =>
            /\ req[p].op = "ActivateFlattenAndForward" =>
                /\ \A k \in DOMAIN outWr :
                      outWr[k] <= 1 /\ (outWr[k] = 1 => k \in OutRange(req[p]))
                /\ pos[p].at = "done" =>
                      \A k \in OutRange(req[p]) : k \in DOMAIN outWr /\ outWr[k] = 1
                /\ accA[p] = begA[p] /\ accB[p] = begB[p]
                /\ weight = frozen.weight /\ bias = frozen.bias
            /\ IsUpdate(req[p]) => delta = frozen.delta

\* a complete forward pass of two neurons
C6_Witness ==
    /\ pos[1].at = "done"
    /\ req[1].op = "ActivateFlattenAndForward"
    /\ OutputSize = 2
    /\ output[0] # 0 /\ output[1] # 0

\* C7 as claimed: every index o + i at which the forward pass reads bias and
\* writes output lies within that container
C7_IndicesInBounds ==
    \A p \in callers :
        req[p].op = "ActivateFlattenAndForward" =>
            fault[p].container \notin {"bias", "output"}

OffsetsInRange(r) ==
    \A a \in {"A", "B"} :
        /\ FirstOffset(r, a) + InputSize <= DeltaSize
        /\ SecondOffset(r, a) + InputSize <= DeltaSize

\* C10: with every offset plus InputSize at most DeltaSize and the chunk
\* length dividing InputSize, an update reads and writes each accumulator
\* index below InputSize once, touches no other accumulator index and reads
\* no delta index from DeltaSize on
C10_AccessOnce ==
    \A p \in callers :
        (IsUpdate(req[p]) /\ OffsetsInRange(req[p]) /\ InContract(backend, InputSize))
            => /\ pos[p].at # "undefined"
               /\ access[p].accIdx \subseteq 0 .. InputSize - 1
               /\ access[p].deltaIdx \subseteq 0 .. DeltaSize - 1
               /\ \A k \in 0 .. InputSize - 1 :
                      /\ access[p].rdA[k] <= 1 /\ access[p].wrA[k] <= 1
                      /\ access[p].rdB[k] <= 1 /\ access[p].wrB[k] <= 1
               /\ pos[p].at = "done" =>
                      \A k \in 0 .. InputSize - 1 :
                          /\ access[p].rdA[k] = 1 /\ access[p].wrA[k] = 1
                          /\ access[p].rdB[k] = 1 /\ access[p].wrB[k] = 1

\* a complete fused update over two vector chunks, at the largest offsets
C10_Witness ==
    /\ pos[1].at = "done"
    /\ req[1].op = "SubtractAndAddToAll"
    /\ backend = "Avx2" /\ InputSize = 2 * ChunkLength("Avx2")
    /\ req[1].oAA + InputSize = DeltaSize

=============================================================================
